---- MODULE Spec2Model ----
(***************************************************************************)
(* A model of networks/positional_encoding.py: the helper routines of the  *)
(* deep-image-prior optimisation pipeline.  Every routine is a stand-alone *)
(* call; each has its own specification (SpecCrop, SpecParams, SpecInput,  *)
(* SpecOptimize, SpecImage) whose Init enumerates the call's arguments and *)
(* whose actions are the statements of the routine.  Tensors and images    *)
(* are modelled by what the routines decide about them: their sizes and    *)
(* shapes, their identity, and the flags the code reads and writes.        *)
(***************************************************************************)
EXTENDS Integers, Sequences, FiniteSets, TLC

VARIABLES
    pc,              \* position of the running call
    \* crop_image
    img_size, d, bbox, img_cropped,
    \* get_params
    opt_over, opt_over_list, opt_idx, params, net, downsampler, net_input,
    \* get_input
    input_depth, method, spatial_size, noise_type, freq_dict, gi_result,
    \* optimize
    optimizer_type, num_iter, scheduler_step, optimizer, j,
    n_zero_grad, n_closure, n_step, n_sched,
    \* get_image
    path, imsize, file_img, img, img_np, resample, saved_png

cropVars   == <<img_size, d, bbox, img_cropped>>
paramVars  == <<opt_over, opt_over_list, opt_idx, params, net, downsampler,
                net_input>>
inputVars  == <<input_depth, method, spatial_size, noise_type, freq_dict,
                gi_result>>
optVars    == <<optimizer_type, num_iter, scheduler_step, optimizer, j,
                n_zero_grad, n_closure, n_step, n_sched>>
imageVars  == <<path, imsize, file_img, img, img_np, resample, saved_png>>
vars       == <<pc, cropVars, paramVars, inputVars, optVars, imageVars>>

None == "None"
NoBox == <<0, 0, 0, 0>>
NoImage == [size |-> <<0, 0>>, bands |-> 0]
NoDownsampler == [given |-> FALSE, module |-> <<>>]
\* freq_dict='log', the default: a string, not a dictionary.
DefaultFreqDict ==
    [is_dict |-> FALSE, method |-> "log", n_freqs |-> 0, cosine_only |-> FALSE]

(***************************************************************************)
(* Bounds of the model.                                                    *)
(***************************************************************************)
MaxDim == 7        \* largest image width/height enumerated
MaxD == 4          \* largest divisor d enumerated for crop_image
MaxAtoms == 5      \* longest opt_over enumerated, in atoms (words and commas)
MaxNetParams == 2  \* most parameters a module (net, downsampler) holds
MaxDepth == 4      \* largest input_depth enumerated for get_input
MaxSpatial == 3    \* largest spatial extent enumerated for get_input
MaxFreqs == 3      \* largest n_freqs enumerated for get_input
MaxIter == 4       \* largest num_iter enumerated for optimize
MaxImg == 3        \* largest image extent and imsize enumerated for get_image
MaxSchedStep == 2  \* largest scheduler_step enumerated for optimize

(***************************************************************************)
(* Values the variables of a routine hold while another routine runs.      *)
(***************************************************************************)
IdleCrop ==
    /\ img_size = <<0, 0>> /\ d = 1 /\ bbox = NoBox /\ img_cropped = <<0, 0>>

IdleParams ==
    /\ opt_over = <<>> /\ opt_over_list = <<>> /\ opt_idx = 0
    /\ params = <<>> /\ net = <<>> /\ downsampler = NoDownsampler
    /\ net_input = [is_leaf |-> TRUE, requires_grad |-> FALSE,
                    assigned |-> FALSE]

IdleInput ==
    /\ input_depth = 1 /\ method = None
    /\ spatial_size = [kind |-> "int", val |-> <<1>>]
    /\ noise_type = "u" /\ freq_dict = DefaultFreqDict /\ gi_result = <<>>

IdleOptimize ==
    /\ optimizer_type = None /\ num_iter = 0 /\ scheduler_step = -1
    /\ optimizer = None /\ j = 0
    /\ n_zero_grad = 0 /\ n_closure = 0 /\ n_step = 0 /\ n_sched = 0

IdleImage ==
    /\ path = <<>> /\ imsize = [kind |-> "int", val |-> <<-1>>]
    /\ file_img = NoImage /\ img = NoImage
    /\ img_np = <<>> /\ resample = None /\ saved_png = <<>>

(***************************************************************************)
(* crop_image(img, d)                                                      *)
(***************************************************************************)
\* int(x / 2) for an integer x: true division, then truncation toward zero.
IntHalf(x) == IF x >= 0 THEN x \div 2 ELSE -((-x) \div 2)

\* new_size: img.size[k] - img.size[k] % d, for both dimensions.
NewSize(size, dd) == <<size[1] - (size[1] % dd), size[2] - (size[2] % dd)>>

\* A crop box whose right and bottom are the new size, not the far edge.
BBoxAnchoredAtSize(size, new_size) ==
    << IntHalf(size[1] - new_size[1]), IntHalf(size[2] - new_size[2]),
       new_size[1], new_size[2] >>

\* bbox = [left, upper, right, lower]
BBox(size, new_size) ==
    << IntHalf(size[1] - new_size[1]), IntHalf(size[2] - new_size[2]),
       IntHalf(size[1] + new_size[1]), IntHalf(size[2] + new_size[2]) >>

\* img.crop(box): the size of the region cut out.
CropSize(box) == <<box[3] - box[1], box[4] - box[2]>>

InitCrop ==
    /\ pc = "crop_image"
    /\ img_size \in (0..MaxDim) \X (0..MaxDim)
    /\ d \in 1..MaxD
    /\ bbox = NoBox /\ img_cropped = <<0, 0>>
    /\ IdleParams /\ IdleInput /\ IdleOptimize /\ IdleImage

crop_image ==
    /\ pc = "crop_image"
    /\ bbox' = BBox(img_size, NewSize(img_size, d))
    /\ img_cropped' = CropSize(bbox')
    /\ pc' = "returned"
    /\ UNCHANGED <<img_size, d, paramVars, inputVars, optVars, imageVars>>

NextCrop == crop_image

SpecCrop == InitCrop /\ [][NextCrop]_vars

\* C3: for every image of width w >= 0 and height h >= 0 and every d >= 1,
\* the crop box has width exactly w - w mod d and height exactly h - h mod d
\* (both divisible by d), lies inside the image (0 <= left <= right <= w,
\* 0 <= top <= bottom <= h), and is centred: the left and right margins, and
\* the top and bottom margins, differ by at most one pixel.
CropBoxDivisibleCentred ==
    pc = "returned" =>
        LET w == img_size[1]
            h == img_size[2]
            left == bbox[1]
            top == bbox[2]
            right == bbox[3]
            bottom == bbox[4]
            Diff(a, b) == IF a >= b THEN a - b ELSE b - a
        IN  /\ right - left = w - (w % d)
            /\ bottom - top = h - (h % d)
            /\ img_cropped = <<w - (w % d), h - (h % d)>>
            /\ (right - left) % d = 0
            /\ (bottom - top) % d = 0
            /\ 0 <= left /\ left <= right /\ right <= w
            /\ 0 <= top /\ top <= bottom /\ bottom <= h
            /\ Diff(left, w - right) <= 1
            /\ Diff(top, h - bottom) <= 1

\* A crop that really removes pixels, with an odd remainder in the width (the
\* margins cannot be equal) and an even non-zero remainder in the height.
CropOddRemainderWitness ==
    /\ pc = "returned"
    /\ img_size[1] % d = 3
    /\ img_size[2] % d = 2
    /\ img_cropped[1] > 0

(***************************************************************************)
(* get_params(opt_over, net, net_input, downsampler)                       *)
(*                                                                         *)
(* opt_over is a string; it is modelled as a sequence of atoms, each the   *)
(* text of a word or a single comma.  split(',') cuts at the commas and    *)
(* the atoms between two commas read as one token (their concatenation).   *)
(* A module is the sequence of its parameters; a parameter is a record     *)
(* with its identity and a flag telling whether anything assigned to it.   *)
(***************************************************************************)
Atoms == {"net", "down", "input", ","}

SeqsUpTo(S, n) == UNION { [1..k -> S] : k \in 0..n }

Range(f) == { f[k] : k \in DOMAIN f }

\* str.split(','): one token per comma, plus one; an empty string gives [''].
RECURSIVE SplitFrom(_, _, _)
SplitFrom(s, k, cur) ==
    IF k > Len(s) THEN <<cur>>
    ELSE IF s[k] = "," THEN <<cur>> \o SplitFrom(s, k + 1, "")
    ELSE SplitFrom(s, k + 1, cur \o s[k])

Split(s) == SplitFrom(s, 1, "")

Module(name, n) == [k \in 1..n |-> [id |-> <<name, k>>, assigned |-> FALSE]]

\* [x for x in module.parameters()]
Parameters(module) == [k \in 1..Len(module) |-> module[k].id]

NetInputId == <<"net_input", 1>>

\* A tensor that does not require grad is a leaf; a non-leaf one requires it.
NetInputs ==
    { [is_leaf |-> TRUE,  requires_grad |-> FALSE, assigned |-> FALSE],
      [is_leaf |-> TRUE,  requires_grad |-> TRUE,  assigned |-> FALSE],
      [is_leaf |-> FALSE, requires_grad |-> TRUE,  assigned |-> FALSE] }

InitParams ==
    /\ pc = "get_params"
    /\ opt_over \in SeqsUpTo(Atoms, MaxAtoms)
    /\ net \in { Module("net", n) : n \in 0..MaxNetParams }
    /\ downsampler \in {NoDownsampler} \cup
           { [given |-> TRUE, module |-> Module("down", n)] :
                 n \in 0..MaxNetParams }
    /\ net_input \in NetInputs
    /\ opt_over_list = <<>> /\ opt_idx = 0 /\ params = <<>>
    /\ IdleCrop /\ IdleInput /\ IdleOptimize /\ IdleImage

\* opt_over_list = opt_over.split(','); params = []
GetParamsSplit ==
    /\ pc = "get_params"
    /\ opt_over_list' = Split(opt_over)
    /\ params' = <<>>
    /\ opt_idx' = 1
    /\ pc' = "for_opt"
    /\ UNCHANGED <<opt_over, net, downsampler, net_input>>
    /\ UNCHANGED <<cropVars, inputVars, optVars, imageVars>>

InLoop == pc = "for_opt" /\ opt_idx <= Len(opt_over_list)

\* params = [x for x in downsampler.parameters()]
DownParams(ps, down) == Parameters(down.module)

\* if opt == 'net': params += [x for x in net.parameters()]
OptNet ==
    /\ InLoop /\ opt_over_list[opt_idx] = "net"
    /\ params' = params \o Parameters(net)
    /\ opt_idx' = opt_idx + 1
    /\ UNCHANGED <<pc, opt_over, opt_over_list, net, downsampler, net_input>>
    /\ UNCHANGED <<cropVars, inputVars, optVars, imageVars>>

\* elif opt == 'down': assert downsampler is not None; params = [...]
OptDown ==
    /\ InLoop /\ opt_over_list[opt_idx] = "down"
    /\ IF ~downsampler.given
       THEN pc' = "raised" /\ UNCHANGED <<params, opt_idx>>
       ELSE /\ params' = DownParams(params, downsampler)
            /\ opt_idx' = opt_idx + 1
            /\ UNCHANGED pc
    /\ UNCHANGED <<opt_over, opt_over_list, net, downsampler, net_input>>
    /\ UNCHANGED <<cropVars, inputVars, optVars, imageVars>>

\* elif opt == 'input': if net_input.is_leaf: requires_grad = True; params += [net_input]
OptInput ==
    /\ InLoop /\ opt_over_list[opt_idx] = "input"
    /\ IF net_input.is_leaf
       THEN /\ net_input' = [net_input EXCEPT !.requires_grad = TRUE,
                                              !.assigned = TRUE]
            /\ params' = Append(params, NetInputId)
       ELSE UNCHANGED <<net_input, params>>
    /\ opt_idx' = opt_idx + 1
    /\ UNCHANGED <<pc, opt_over, opt_over_list, net, downsampler>>
    /\ UNCHANGED <<cropVars, inputVars, optVars, imageVars>>

\* else: assert False, 'what is it?'
OptUnknown ==
    /\ InLoop /\ opt_over_list[opt_idx] \notin {"net", "down", "input"}
    /\ pc' = "raised"
    /\ UNCHANGED <<opt_over, opt_over_list, opt_idx, params, net,
                   downsampler, net_input>>
    /\ UNCHANGED <<cropVars, inputVars, optVars, imageVars>>

\* return params
GetParamsReturn ==
    /\ pc = "for_opt" /\ opt_idx > Len(opt_over_list)
    /\ pc' = "returned"
    /\ UNCHANGED <<paramVars, cropVars, inputVars, optVars, imageVars>>

NextParams ==
    \/ GetParamsSplit
    \/ OptNet
    \/ OptDown
    \/ OptInput
    \/ OptUnknown
    \/ GetParamsReturn

SpecParams == InitParams /\ [][NextParams]_vars

Listed(tok) == tok \in Range(opt_over_list)

\* C1: when get_params returns, the list it returns contains every parameter
\* of each component opt_over names: those of net for 'net', those of
\* downsampler for 'down', and net_input for 'input' (net_input is counted
\* only when it is a leaf, the one case in which the code ever adds it).
ReturnsParamsOfEveryNamedComponent ==
    pc = "returned" =>
        /\ Listed("net") => Range(Parameters(net)) \subseteq Range(params)
        /\ Listed("down") =>
               Range(Parameters(downsampler.module)) \subseteq Range(params)
        /\ (Listed("input") /\ net_input.is_leaf) =>
               NetInputId \in Range(params)

\* C6: when get_params returns, net_input.requires_grad has been set to True
\* and net_input is in the result if and only if 'input' is a token of
\* opt_over and net_input is a leaf; a non-leaf net_input is neither assigned
\* nor returned; no parameter of net or downsampler is ever assigned.
InputSideEffectIffListedLeaf ==
    LET wanted == Listed("input") /\ net_input.is_leaf
    IN  /\ \A k \in DOMAIN net : ~net[k].assigned
        /\ \A k \in DOMAIN downsampler.module :
               ~downsampler.module[k].assigned
        /\ ~net_input.is_leaf =>
               ~net_input.assigned /\ NetInputId \notin Range(params)
        /\ pc = "returned" =>
               /\ net_input.assigned <=> wanted
               /\ wanted => net_input.requires_grad
               /\ NetInputId \in Range(params) <=> wanted

(***************************************************************************)
(* get_input(input_depth, method, spatial_size, noise_type, var,           *)
(*           freq_dict)                                                    *)
(*                                                                         *)
(* An array or tensor is modelled by its shape, a sequence of extents, and *)
(* every library call by what it does to the shape.  Axes are numbered     *)
(* from 0 as in the source; a negative axis counts from the end.           *)
(***************************************************************************)
Axis(shape, a) == IF a < 0 THEN Len(shape) + a + 1 ELSE a + 1

\* np.arange(0, n): its length.
Arange(n) == IF n > 0 THEN n ELSE 0

\* np.meshgrid(x, y) of vectors of lengths nx and ny: each output is ny x nx.
Meshgrid(nx, ny) == <<ny, nx>>

\* a[None, :]: a new leading axis of extent 1.
NewAxis(shape) == <<1>> \o shape

\* tensor.unsqueeze(a)
Unsqueeze(shape, a) ==
    LET k == IF a < 0 THEN Len(shape) + a + 2 ELSE a + 1
    IN  [i \in 1..(Len(shape) + 1) |->
            IF i < k THEN shape[i] ELSE IF i = k THEN 1 ELSE shape[i - 1]]

\* tensor.permute(perm) / array.transpose(perm)
Permute(shape, perm) == [i \in 1..Len(perm) |-> shape[perm[i] + 1]]

RECURSIVE SumAxis(_, _)
SumAxis(shapes, k) ==
    IF shapes = <<>> THEN 0 ELSE Head(shapes)[k] + SumAxis(Tail(shapes), k)

\* np.concatenate / torch.cat of a non-empty list of equal-rank shapes.
Concat(shapes, a) ==
    LET k == Axis(shapes[1], a)
    IN  [i \in 1..Len(shapes[1]) |->
            IF i = k THEN SumAxis(shapes, k) ELSE shapes[1][i]]

\* Broadcasting of a * b: shapes aligned at the last axis.
Broadcast(a, b) ==
    LET n == IF Len(a) >= Len(b) THEN Len(a) ELSE Len(b)
        At(sh, i) == IF i - (n - Len(sh)) >= 1 THEN sh[i - (n - Len(sh))] ELSE 1
    IN  [i \in 1..n |-> IF At(a, i) = 1 THEN At(b, i) ELSE At(a, i)]

\* tensor.flatten(-2, -1): the last two axes become one.
FlattenLastTwo(shape) ==
    LET n == Len(shape)
    IN  SubSeq(shape, 1, n - 2) \o <<shape[n - 1] * shape[n]>>

\* k * (t,): a tuple of k copies (empty when k <= 0).
Copies(k, t) == [i \in 1..(IF k > 0 THEN k ELSE 0) |-> t]

\* get_meshgrid(spatial_size): X and Y stacked on a new first axis.
get_meshgrid(size) ==
    LET XY == Meshgrid(Arange(size[2]), Arange(size[1]))
    IN  Concat(<<NewAxis(XY), NewAxis(XY)>>, 0)

\* np_to_torch(img_np): torch.from_numpy(img_np)[None, :]
np_to_torch(shape) == NewAxis(shape)

\* base ** torch.linspace(0., n_freqs - 1, steps=n_freqs)
Freqs(fd) == <<fd.n_freqs>>

\* generate_fourier_feature_maps(net_input, spatial_size, only_cosine)
generate_fourier_feature_maps(freqs, size, only_cosine) ==
    LET meshgrid == Unsqueeze(Permute(get_meshgrid(size), <<1, 2, 0>>), 0)
        vp == Broadcast(freqs, Unsqueeze(meshgrid, -1))
        vp_cat == IF only_cosine THEN Concat(<<vp>>, -1)
                  ELSE Concat(<<vp, vp>>, -1)
    IN  Permute(FlattenLastTwo(vp_cat), <<0, 3, 1, 2>>)

\* if isinstance(spatial_size, int): spatial_size = (spatial_size, spatial_size)
SpatialPair(sz) ==
    IF sz.kind = "int" THEN <<sz.val[1], sz.val[1]>> ELSE sz.val

SpatialSizes ==
    { [kind |-> "int", val |-> <<n>>] : n \in 1..MaxSpatial } \cup
    { [kind |-> "tuple", val |-> <<a, b>>] : a, b \in 1..MaxSpatial }

FreqDicts ==
    {DefaultFreqDict} \cup
    [is_dict : {TRUE}, method : {"log", "linear"}, n_freqs : 1..MaxFreqs,
     cosine_only : BOOLEAN]

InitInput ==
    /\ pc = "get_input"
    /\ input_depth \in 1..MaxDepth
    /\ method \in {"noise", "meshgrid", "fourier", "infer_freqs", "other"}
    /\ spatial_size \in SpatialSizes
    /\ noise_type \in {"u", "n", "other"}
    /\ freq_dict \in FreqDicts
    /\ gi_result = <<>>
    /\ IdleCrop /\ IdleParams /\ IdleOptimize /\ IdleImage

InputFrame ==
    /\ UNCHANGED <<input_depth, method, spatial_size, noise_type, freq_dict>>
    /\ UNCHANGED <<cropVars, paramVars, optVars, imageVars>>

\* method == 'noise': torch.zeros(shape); fill_noise; net_input *= var
GetInputNoise ==
    /\ pc = "get_input" /\ method = "noise"
    /\ IF noise_type \in {"u", "n"}
       THEN /\ gi_result' = <<1, input_depth, SpatialPair(spatial_size)[1],
                              SpatialPair(spatial_size)[2]>>
            /\ pc' = "returned"
       ELSE pc' = "raised" /\ UNCHANGED gi_result
    /\ InputFrame

\* method == 'meshgrid': (input_depth // 2) copies of the grid, along axis 1
GetInputMeshgrid ==
    /\ pc = "get_input" /\ method = "meshgrid"
    /\ LET grid == np_to_torch(get_meshgrid(SpatialPair(spatial_size)))
           copies == Copies(input_depth \div 2, grid)
       IN  IF copies = <<>>
           THEN pc' = "raised" /\ UNCHANGED gi_result
           ELSE gi_result' = Concat(copies, 1) /\ pc' = "returned"
    /\ InputFrame

\* Reading freq_dict['method'] raises on the default string; any method but
\* 'log' raises ValueError.
FreqDictUsable == freq_dict.is_dict /\ freq_dict.method = "log"

\* method == 'fourier'
GetInputFourier ==
    /\ pc = "get_input" /\ method = "fourier"
    /\ IF FreqDictUsable
       THEN /\ gi_result' = generate_fourier_feature_maps(
                                Freqs(freq_dict), SpatialPair(spatial_size),
                                freq_dict.cosine_only)
            /\ pc' = "returned"
       ELSE pc' = "raised" /\ UNCHANGED gi_result
    /\ InputFrame

\* method == 'infer_freqs': the frequencies themselves are returned
GetInputInferFreqs ==
    /\ pc = "get_input" /\ method = "infer_freqs"
    /\ IF FreqDictUsable
       THEN gi_result' = Freqs(freq_dict) /\ pc' = "returned"
       ELSE pc' = "raised" /\ UNCHANGED gi_result
    /\ InputFrame

\* else: assert False
GetInputUnknownMethod ==
    /\ pc = "get_input"
    /\ method \notin {"noise", "meshgrid", "fourier", "infer_freqs"}
    /\ pc' = "raised"
    /\ UNCHANGED gi_result
    /\ InputFrame

NextInput ==
    \/ GetInputNoise
    \/ GetInputMeshgrid
    \/ GetInputFourier
    \/ GetInputInferFreqs
    \/ GetInputUnknownMethod

SpecInput == InitInput /\ [][NextInput]_vars

\* C2: for every accepted method and every input_depth >= 1, the tensor
\* get_input returns has size 1 x input_depth x spatial_size[0] x
\* spatial_size[1]; in particular it has input_depth channels.
InputHasDocumentedSize ==
    pc = "returned" =>
        gi_result = <<1, input_depth, SpatialPair(spatial_size)[1],
                      SpatialPair(spatial_size)[2]>>

(***************************************************************************)
(* optimize(optimizer_type, parameters, closure, LR, num_iter,             *)
(*          scheduler_step)                                                *)
(*                                                                         *)
(* pc is the statement about to run; j counts the iterations of the        *)
(* current for loop already completed.  The counters record the calls made *)
(* on the optimizer, the scheduler and the closure.  A closure call either *)
(* returns or raises; a raise ends the call of optimize.                   *)
(***************************************************************************)
\* for j in range(100): the Adam steps taken before LBFGS
WarmupIters == 100

\* A loop that runs once more than range(n) has elements.
RangeLenOffByOne(n) == IF n > 0 THEN n + 1 ELSE 1

\* len(range(n))
RangeLen(n) == IF n > 0 THEN n ELSE 0

InitOptimize ==
    /\ pc = "optimize"
    /\ optimizer_type \in {"adam", "LBFGS", "other"}
    /\ num_iter \in 0..MaxIter
    /\ scheduler_step \in {-1} \cup (1..MaxSchedStep)
    /\ optimizer = None /\ j = 0
    /\ n_zero_grad = 0 /\ n_closure = 0 /\ n_step = 0 /\ n_sched = 0
    /\ IdleCrop /\ IdleParams /\ IdleInput /\ IdleImage

OptimizeArgs == <<optimizer_type, num_iter, scheduler_step>>
OtherVars == <<cropVars, paramVars, inputVars, imageVars>>

\* The branch on optimizer_type and the construction of the first optimizer
\* (and, for 'adam', of the StepLR scheduler).
OptimizeStart ==
    /\ pc = "optimize"
    /\ IF optimizer_type = "LBFGS"
       THEN optimizer' = "Adam" /\ pc' = "warmup_for"
       ELSE IF optimizer_type = "adam"
       THEN optimizer' = "Adam" /\ pc' = "adam_for"
       ELSE optimizer' = optimizer /\ pc' = "raised"
    /\ j' = 0
    /\ UNCHANGED <<OptimizeArgs, n_zero_grad, n_closure, n_step, n_sched>>
    /\ UNCHANGED OtherVars

\* for j in range(100):
WarmupFor ==
    /\ pc = "warmup_for"
    /\ pc' = IF j < RangeLen(WarmupIters) THEN "warmup_zero_grad" ELSE "lbfgs"
    /\ UNCHANGED <<OptimizeArgs, optimizer, j, n_zero_grad, n_closure,
                   n_step, n_sched>>
    /\ UNCHANGED OtherVars

WarmupZeroGrad ==
    /\ pc = "warmup_zero_grad"
    /\ n_zero_grad' = n_zero_grad + 1
    /\ pc' = "warmup_closure"
    /\ UNCHANGED <<OptimizeArgs, optimizer, j, n_closure, n_step, n_sched>>
    /\ UNCHANGED OtherVars

WarmupClosure ==
    /\ pc = "warmup_closure"
    /\ n_closure' = n_closure + 1
    /\ pc' \in {"warmup_step", "raised"}
    /\ UNCHANGED <<OptimizeArgs, optimizer, j, n_zero_grad, n_step, n_sched>>
    /\ UNCHANGED OtherVars

WarmupStep ==
    /\ pc = "warmup_step"
    /\ n_step' = n_step + 1
    /\ j' = j + 1
    /\ pc' = "warmup_for"
    /\ UNCHANGED <<OptimizeArgs, optimizer, n_zero_grad, n_closure, n_sched>>
    /\ UNCHANGED OtherVars

\* optimizer = LBFGS(max_iter=num_iter, ...); optimizer.step(closure2).
\* How often the single step evaluates closure2 is decided inside the
\* library: at least once, here at most max(1, num_iter) times.
LbfgsStep ==
    /\ pc = "lbfgs"
    /\ optimizer' = "LBFGS"
    /\ \E k \in 1..(IF num_iter > 1 THEN num_iter ELSE 1) :
           /\ n_zero_grad' = n_zero_grad + k
           /\ n_closure' = n_closure + k
    /\ n_step' = n_step + 1
    /\ pc' \in {"done", "raised"}
    /\ UNCHANGED <<OptimizeArgs, j, n_sched>>
    /\ UNCHANGED OtherVars

\* for j in tqdm.tqdm(range(num_iter)):
AdamFor ==
    /\ pc = "adam_for"
    /\ pc' = IF j < RangeLen(num_iter) THEN "adam_zero_grad" ELSE "done"
    /\ UNCHANGED <<OptimizeArgs, optimizer, j, n_zero_grad, n_closure,
                   n_step, n_sched>>
    /\ UNCHANGED OtherVars

\* optimizer.zero_grad()
AdamZeroGrad ==
    /\ pc = "adam_zero_grad"
    /\ n_zero_grad' = n_zero_grad + 1
    /\ pc' = "adam_closure"
    /\ UNCHANGED <<OptimizeArgs, optimizer, j, n_closure, n_step, n_sched>>
    /\ UNCHANGED OtherVars

\* closure()
AdamClosure ==
    /\ pc = "adam_closure"
    /\ n_closure' = n_closure + 1
    /\ pc' \in {"adam_step", "raised"}
    /\ UNCHANGED <<OptimizeArgs, optimizer, j, n_zero_grad, n_step, n_sched>>
    /\ UNCHANGED OtherVars

\* optimizer.step()
AdamStep ==
    /\ pc = "adam_step"
    /\ n_step' = n_step + 1
    /\ IF scheduler_step # -1
       THEN pc' = "adam_scheduler" /\ j' = j
       ELSE pc' = "adam_for" /\ j' = j + 1
    /\ UNCHANGED <<OptimizeArgs, optimizer, n_zero_grad, n_closure, n_sched>>
    /\ UNCHANGED OtherVars

\* if scheduler_step != -1: scheduler.step()
AdamSchedulerStep ==
    /\ pc = "adam_scheduler"
    /\ n_sched' = n_sched + 1
    /\ j' = j + 1
    /\ pc' = "adam_for"
    /\ UNCHANGED <<OptimizeArgs, optimizer, n_zero_grad, n_closure, n_step>>
    /\ UNCHANGED OtherVars

NextOptimize ==
    \/ OptimizeStart
    \/ WarmupFor
    \/ WarmupZeroGrad
    \/ WarmupClosure
    \/ WarmupStep
    \/ LbfgsStep
    \/ AdamFor
    \/ AdamZeroGrad
    \/ AdamClosure
    \/ AdamStep
    \/ AdamSchedulerStep

SpecOptimize == InitOptimize /\ [][NextOptimize]_vars

\* The interpreter runs the next statement whenever there is one.
FairSpecOptimize == SpecOptimize /\ WF_vars(NextOptimize)

\* C4: with optimizer_type 'adam' and any num_iter >= 0 the call ends, either
\* by a closure call that raised or by the loop finishing; the closure and
\* optimizer.step are never called more than num_iter times, and when the
\* loop has finished each has been called exactly num_iter times.
AdamRunsNumIterIterations ==
    /\ [](optimizer_type = "adam" =>
             /\ n_closure <= num_iter /\ n_step <= num_iter
             /\ pc = "done" => n_closure = num_iter /\ n_step = num_iter)
    /\ (optimizer_type = "adam") ~> (pc \in {"done", "raised"})

\* An 'adam' run of at least two iterations that finished, with a scheduler.
AdamFinishedWitness ==
    /\ optimizer_type = "adam" /\ pc = "done"
    /\ num_iter >= 2 /\ n_step = num_iter /\ n_sched = num_iter

(***************************************************************************)
(* load(path), get_image(path, imsize), pil_to_np(img_PIL)                 *)
(*                                                                         *)
(* An image is its size (width, height) and its number of bands.  A path   *)
(* is a sequence of atoms, each a piece of text; the extension is the last *)
(* atom.  saved_png is the path load saved a converted file under, or <<>>.*)
(***************************************************************************)
Paths ==
    { <<"img", ".png">>, <<"scan", ".dcm">>, <<"a", ".dcm", "/scan", ".dcm">> }

\* path[-4:] == ".dcm"
IsDicom(p) == Len(p) > 0 /\ p[Len(p)] = ".dcm"

\* path.replace(".dcm", ".png"): every occurrence is replaced.
ReplaceDcm(p) == [k \in DOMAIN p |-> IF p[k] = ".dcm" THEN ".png" ELSE p[k]]

\* load(path): a DICOM pixel array is rescaled, saved as an 8-bit grey PNG
\* and that file is opened; any other file is opened as it is.
load(p, file) ==
    IF IsDicom(p) THEN [size |-> file.size, bands |-> 1] ELSE file

\* if isinstance(imsize, int): imsize = (imsize, imsize)
ImsizePair(sz) ==
    IF sz.kind = "int" THEN <<sz.val[1], sz.val[1]>> ELSE sz.val

\* A test that compares the widths only.
NeedsResizeWidthOnly(im, size) == size[1] # -1 /\ im.size[1] # size[1]

\* if imsize[0] != -1 and img.size != imsize:
NeedsResize(im, size) == size[1] # -1 /\ im.size # size

\* BICUBIC when the width grows, ANTIALIAS otherwise
Resample(im, size) == IF size[1] > im.size[1] THEN "BICUBIC" ELSE "ANTIALIAS"

\* img.resize(size, resample) raises unless both extents are positive.
CanResize(size) == size[1] > 0 /\ size[2] > 0

\* img.resize(size, resample)
Resize(im, size) == [size |-> size, bands |-> im.bands]

\* np.array(img_PIL): height x width, and a last axis of bands if several
ArrayOf(im) ==
    IF im.bands = 1 THEN <<im.size[2], im.size[1]>>
    ELSE <<im.size[2], im.size[1], im.bands>>

\* pil_to_np(img_PIL): transpose(2, 0, 1) of a 3-axis array, else a new
\* leading axis
pil_to_np(im) ==
    LET ar == ArrayOf(im)
    IN  IF Len(ar) = 3 THEN Permute(ar, <<2, 0, 1>>) ELSE NewAxis(ar)

ImsizeValues == {-1} \cup (1..MaxImg)

Imsizes ==
    { [kind |-> "int", val |-> <<n>>] : n \in ImsizeValues } \cup
    { [kind |-> "tuple", val |-> <<a, b>>] : a, b \in ImsizeValues }

InitImage ==
    /\ pc = "get_image"
    /\ path \in Paths
    /\ imsize \in Imsizes
    /\ file_img \in [size : (1..MaxImg) \X (1..MaxImg), bands : {1, 3}]
    /\ img = NoImage /\ img_np = <<>> /\ resample = None /\ saved_png = <<>>
    /\ IdleCrop /\ IdleParams /\ IdleInput /\ IdleOptimize

ImageFrame == UNCHANGED <<cropVars, paramVars, inputVars, optVars>>

\* img = load(path)
GetImageLoad ==
    /\ pc = "get_image"
    /\ img' = load(path, file_img)
    /\ saved_png' = IF IsDicom(path) THEN ReplaceDcm(path) ELSE <<>>
    /\ pc' = "loaded"
    /\ UNCHANGED <<path, imsize, file_img, img_np, resample>>
    /\ ImageFrame

\* The resize statement, lines 118 to 125.
GetImageResize ==
    /\ pc = "loaded"
    /\ LET size == ImsizePair(imsize)
       IN  IF NeedsResize(img, size)
           THEN IF CanResize(size)
                THEN /\ resample' = Resample(img, size)
                     /\ img' = Resize(img, size)
                     /\ pc' = "sized"
                ELSE pc' = "raised" /\ UNCHANGED <<img, resample>>
           ELSE pc' = "sized" /\ UNCHANGED <<img, resample>>
    /\ UNCHANGED <<path, imsize, file_img, img_np, saved_png>>
    /\ ImageFrame

\* img_np = pil_to_np(img); return img, img_np
GetImageReturn ==
    /\ pc = "sized"
    /\ img_np' = pil_to_np(img)
    /\ pc' = "returned"
    /\ UNCHANGED <<path, imsize, file_img, img, resample, saved_png>>
    /\ ImageFrame

NextImage ==
    \/ GetImageLoad
    \/ GetImageResize
    \/ GetImageReturn

SpecImage == InitImage /\ [][NextImage]_vars

\* The array of the returned image: bands x height x width.
ArrayIsOfReturnedImage == img_np = <<img.bands, img.size[2], img.size[1]>>

\* C5, as the claim states it: when imsize is -1 (which the code reads as the
\* pair (-1, -1)) the returned image keeps the size of the loaded one; for
\* any other imsize, scalar or tuple, it has size exactly imsize; and img_np
\* is the array of the returned image.
ImageHasRequestedSize ==
    pc = "returned" =>
        /\ IF ImsizePair(imsize) = <<-1, -1>>
           THEN img.size = file_img.size
           ELSE img.size = ImsizePair(imsize)
        /\ ArrayIsOfReturnedImage

\* C5, amended: when the first component of imsize is -1 (the scalar -1, or a
\* tuple (-1, h)) the returned image keeps the size of the loaded one and is
\* not resampled; for any other imsize it has size exactly imsize; and img_np
\* is the array of the returned image.
ImageHasRequestedSizeUnlessFirstIsMinusOne ==
    pc = "returned" =>
        /\ IF ImsizePair(imsize)[1] = -1
           THEN img.size = file_img.size /\ resample = None
           ELSE img.size = ImsizePair(imsize)
        /\ ArrayIsOfReturnedImage

\* A returned image that was resized to a non-square size other than its own.
ImageResizedWitness ==
    /\ pc = "returned"
    /\ resample = "ANTIALIAS"
    /\ imsize.kind = "tuple" /\ imsize.val[1] # imsize.val[2]
    /\ img.size = imsize.val /\ file_img.size # imsize.val
    /\ img.bands = 3

====
